---- MODULE Spec2Model ----
(***************************************************************************)
(* Model of src/dataset/dataset_re10k.py (DatasetRE10k).                   *)
(*                                                                         *)
(* Five specifications share the module:                                   *)
(*   Spec       construction of the dataset and the passes of its          *)
(*              data-loading workers over the shard list;                  *)
(*   SpecTest   the same operations in the test stage, with more shards    *)
(*              and workers (no shuffle keeps the state space small);      *)
(*   SpecIndex  the same operations, started from data roots whose index   *)
(*              files may share scene keys;                                *)
(*   SpecScene  the processing of one scene after another inside a pass;   *)
(*   SpecBasis  the camera bases built from the frames of a .zst chunk.    *)
(*                                                                         *)
(* Numbers.  Floats are modelled exactly.  A value x / sqrt(s2) is kept as *)
(* the pair [v |-> x, s2 |-> s2]; s2 = 0 stands for a division by zero,    *)
(* that is for a NaN or infinite float.  Lengths are in tenths of a world  *)
(* unit, so that 0.1 and 0.8 are integers.                                 *)
(***************************************************************************)
EXTENDS Integers, Sequences, FiniteSets, TLC

VARIABLES
    \* ---- dataset level (Spec, SpecIndex)
    cfg,          \* DatasetRE10kCfg fields read by __init__ and __iter__
    disk,         \* chunk files and index.json files under the data roots
    status,       \* "new" | "constructed" | "failed" (an exception left __init__/__len__)
    chunks0,      \* self.chunks of the constructed dataset
    indexCache,   \* the cached_property index: whether it is set, and its value
    lenOutcome,   \* the last len(dataset): "none" | "returned" | "raised"
    wchunks,      \* self.chunks of each worker's copy of the dataset
    wpc,          \* per worker: "idle" | "iterating" | "exhausted" | "failed"
    wpos,         \* per worker: chunks of the current pass the loop has finished
    wrun,         \* per worker: scenes of the current chunk the loop has taken
    passNo,       \* number of passes started so far
    emitted,      \* TRUE once some example has been yielded
    \* ---- scene level (SpecScene)
    scfg,         \* configuration and instance attributes used per scene
    frames,       \* the loaded scene: per frame, Camera Frame Builder output
    spc,          \* position inside the loop body; "load_error", "error" and
                  \* "image_error": an exception left the generator (in the
                  \* builder, on an index, in convert_images)
    context_indices,
    target_indices,
    context_images, \* height and width of each image gathered for the context
    target_images,  \* height and width of each image gathered for the targets
    extrinsics,   \* per frame translation extrinsics[:, :3, 3], as a scaled vector
    scale,        \* the square of the baseline scale of the scene (1 for scale = 1)
    example,      \* <<the yielded example>>, or NoExample
    skipReason,   \* why the scene was skipped, or "none"
    \* ---- camera basis (SpecBasis)
    direction,    \* per frame of a .zst chunk: the direction at the principal pixel
    bpc,          \* "input" | "basis" | "matrix" | "inverted" | "error"
    basis,        \* [forward, up, right] returned by get_forward_up_right_tensor
    c2w,          \* per frame: the columns of the matrix built before inversion
    w2c           \* per frame: the translation of the inverted matrix

dsVars == <<cfg, disk, status, chunks0, indexCache, lenOutcome, wchunks, wpc, wpos, wrun, passNo,
           emitted>>
scVars == <<scfg, frames, spc, context_indices, target_indices, context_images,
            target_images, extrinsics, scale, example, skipReason>>
bsVars == <<direction, bpc, basis, c2w, w2c>>
vars == <<cfg, disk, status, chunks0, indexCache, lenOutcome, wchunks, wpc, wpos, wrun, passNo, emitted,
          scfg, frames, spc, context_indices, target_indices, context_images,
          target_images, extrinsics, scale, example, skipReason, direction, bpc, basis, c2w, w2c>>

----------------------------------------------------------------------------
(* Bounds of the model.                                                    *)

MaxShards == 2
MaxWorkers == 2
MaxPasses == 2
MaxTestShards == 5
MaxTestWorkers == 3
MaxFrames == 3
MaxTargets == 1
MaxCoord == 2
MaxBatch == 4

None == "None"
NoExample == <<>>
Stages == {"train", "val", "test"}
DataStages == <<"test", "train">>
Keys == {"a", "b"}

----------------------------------------------------------------------------
(* Sequence helpers.                                                       *)

Range(s) == {s[i] : i \in DOMAIN s}

RECURSIVE Concat(_)
Concat(ss) == IF ss = <<>> THEN <<>> ELSE Head(ss) \o Concat(Tail(ss))

Repeat(x, n) == [i \in 1..n |-> x]

Count(x, s) == Cardinality({i \in DOMAIN s : s[i] = x})

SeqsUpTo(S, lo, hi) == UNION {[1..n -> S] : n \in lo..hi}

----------------------------------------------------------------------------
(* Dataset construction: __init__, data_stage, index.                      *)

\* data_stage property
data_stage(c) ==
    IF c.overfit_to_scene # None THEN "test"
    ELSE IF c.stage = "val" THEN "test"
    ELSE c.stage

\* A chunk file: root / data_stage / name, the files of a directory being
\* named 1, 2, ... in sorted order.
ChunkPath(root, ds, n) == <<root, ds, n>>

\* sorted([path for path in root.iterdir() if suffix is .torch or .zst])
RootChunks(d, root, ds) == [n \in 1..d.nfiles[<<ds, root>>] |-> ChunkPath(root, ds, n)]

\* One root's index.json, as {k: Path(root / data_stage / v)}: each key goes
\* to the file its entry names, whether or not that file exists.
RootIndex(d, root, ds) ==
    [k \in DOMAIN d.index[<<ds, root>>] |-> ChunkPath(root, ds, d.index[<<ds, root>>][k])]

\* The loop of the index property over the (data_stage, root) pairs: the
\* assertion fails on the first index file that shares a key with the merge.
RECURSIVE MergeIndex(_, _, _)
MergeIndex(d, pairs, merged) ==
    IF pairs = <<>> THEN [ok |-> TRUE, index |-> merged]
    ELSE LET idx == RootIndex(d, Head(pairs)[2], Head(pairs)[1])
         IN  IF (DOMAIN merged) \cap (DOMAIN idx) # {}
             THEN [ok |-> FALSE, index |-> merged]
             ELSE MergeIndex(d, Tail(pairs),
                    [k \in (DOMAIN merged) \cup (DOMAIN idx) |->
                        IF k \in DOMAIN idx THEN idx[k] ELSE merged[k]])

EmptyIndex == [k \in {} |-> <<>>]

\* The cached property before its first evaluation.
Uncached == [cached |-> FALSE, index |-> EmptyIndex]

\* index property
index(c, d) ==
    LET stages == IF c.overfit_to_scene # None THEN DataStages ELSE <<data_stage(c)>>
        pairs  == Concat([i \in 1..Len(stages) |->
                            [j \in 1..Len(c.roots) |-> <<stages[i], c.roots[j]>>]])
    IN  MergeIndex(d, pairs, EmptyIndex)

\* lst[::k]
Stride(s, k) == [i \in 1..((Len(s) + k - 1) \div k) |-> s[(i - 1) * k + 1]]

\* __init__: the chunk list, or a failure when reading the index raises.
InitChunks(c, d) ==
    LET collected == Concat([j \in 1..Len(c.roots) |-> RootChunks(d, c.roots[j], data_stage(c))])
        idx       == index(c, d)
        overfit   == c.overfit_to_scene # None
        failed    == overfit /\ (~idx.ok \/ c.overfit_to_scene \notin DOMAIN idx.index)
        chosen    == IF overfit /\ ~failed
                     THEN Repeat(idx.index[c.overfit_to_scene], Len(collected))
                     ELSE collected
    IN  [ok     |-> ~failed,
         cached |-> overfit,
         chunks |-> IF c.stage = "test" THEN Stride(chosen, c.test_chunk_interval) ELSE chosen]

\* Worker ids: 0..W-1 with worker info, the single iterating process otherwise.
WorkerIds(c) == IF c.num_workers = 0 THEN {0} ELSE 0..(c.num_workers - 1)

Construct ==
    /\ status = "new"
    /\ LET r == InitChunks(cfg, disk)
       IN  /\ status' = IF r.ok THEN "constructed" ELSE "failed"
           /\ chunks0' = IF r.ok THEN r.chunks ELSE <<>>
           /\ indexCache' = IF r.cached /\ r.ok
                            THEN [cached |-> TRUE, index |-> index(cfg, disk).index]
                            ELSE Uncached
           /\ wchunks' = [w \in WorkerIds(cfg) |-> IF r.ok THEN r.chunks ELSE <<>>]
    /\ UNCHANGED <<cfg, disk, lenOutcome, wpc, wpos, wrun, passNo, emitted>>
    /\ UNCHANGED <<scVars, bsVars>>

\* __len__ reads the index: the cached property evaluates it on first use and
\* keeps the value; when the assertion fails the exception leaves len(), nothing
\* is cached and the dataset stays as it was constructed.
DatasetLen ==
    /\ status = "constructed"
    /\ LET idx == IF indexCache.cached THEN [ok |-> TRUE, index |-> indexCache.index]
                  ELSE index(cfg, disk)
       IN  /\ lenOutcome' = IF idx.ok THEN "returned" ELSE "raised"
           /\ indexCache' = IF idx.ok THEN [cached |-> TRUE, index |-> idx.index]
                            ELSE indexCache
    /\ UNCHANGED <<cfg, disk, status, chunks0, wchunks, wpc, wpos, wrun, passNo, emitted>>
    /\ UNCHANGED <<scVars, bsVars>>

----------------------------------------------------------------------------
(* __iter__: shuffle, worker partition, the loop over the chunks.          *)

\* shuffle: any permutation of the list
shuffle(lst) == {[i \in 1..Len(lst) |-> lst[p[i]]] : p \in Permutations(1..Len(lst))}

\* stage in (("train", "val") if shuffle_val else ("train"))
ShuffleStage(c) == IF c.shuffle_val THEN c.stage \in {"train", "val"} ELSE c.stage = "train"

\* [chunk for chunk_index, chunk in enumerate(chunks) if chunk_index % num_workers == id]
RECURSIVE WorkerSliceFrom(_, _, _, _)
WorkerSliceFrom(chunks, num_workers, id, p) ==
    IF p >= Len(chunks) THEN <<>>
    ELSE (IF p % num_workers = id THEN <<chunks[p + 1]>> ELSE <<>>)
         \o WorkerSliceFrom(chunks, num_workers, id, p + 1)

WorkerSliceFirstOnly(chunks, num_workers, id) ==
    WorkerSliceFrom(chunks, num_workers, 0, 0)

WorkerSlice(chunks, num_workers, id) == WorkerSliceFrom(chunks, num_workers, id, 0)

PartitionNever(c) == FALSE

\* stage == "test" and worker_info is not None
Partitioned(c) == c.stage = "test" /\ c.num_workers > 0

\* A new pass over the data loader: iter(dataset) is called anew in every
\* worker, at any time after construction.  The generators of the pass before
\* are dropped wherever they stand: suspended at a yield, ended, or not started.
\* (A generator loops over the list object it read in its prologue; later
\* prologues rebind self.chunks and leave that object alone.)
NewPass ==
    /\ status = "constructed"
    /\ passNo < MaxPasses
    /\ passNo' = passNo + 1
    /\ wpc' = [w \in WorkerIds(cfg) |-> "idle"]
    /\ wpos' = [w \in WorkerIds(cfg) |-> 0]
    /\ wrun' = [w \in WorkerIds(cfg) |-> 0]
    /\ UNCHANGED <<cfg, disk, status, chunks0, indexCache, lenOutcome, wchunks, emitted>>
    /\ UNCHANGED <<scVars, bsVars>>

\* The prologue of __iter__ in worker w.
IterStart(w) ==
    /\ status = "constructed"
    /\ passNo > 0
    /\ wpc[w] = "idle"
    /\ \E shuffled \in (IF ShuffleStage(cfg) THEN shuffle(wchunks[w]) ELSE {wchunks[w]}) :
         wchunks' = [wchunks EXCEPT ![w] =
                        IF Partitioned(cfg)
                        THEN WorkerSlice(shuffled, cfg.num_workers, w)
                        ELSE shuffled]
    /\ wpc' = [wpc EXCEPT ![w] = "iterating"]
    /\ UNCHANGED <<cfg, disk, status, chunks0, indexCache, lenOutcome, wpos, wrun, passNo, emitted>>
    /\ UNCHANGED <<scVars, bsVars>>

\* open(chunk_path) / torch.load(chunk_path): the file has to exist.
Loadable(d, chunk) == chunk[3] \in 1..d.nfiles[<<chunk[2], chunk[1]>>]

\* The turns of "for run_idx in range(...)" of one chunk (one for a .zst chunk).
ChunkScenes(d, chunk) == d.nscenes

\* The generator of worker w is inside the loop, suspended or about to start.
\* Its position is <<wpos[w], wrun[w]>>: wpos[w] chunks are finished, and of
\* the chunk after them wrun[w] scenes are taken (0: not loaded yet).
\* Running on to chunk j + 1 loads every chunk from the next unloaded one.
CanLoadUpTo(w, j) ==
    \A k \in (wpos[w] + 1)..j :
        (k = wpos[w] + 1 /\ wrun[w] > 0) \/ Loadable(disk, wchunks[w][k])

\* <<j, r>> lies after the position of worker w.
Ahead(w, j, r) ==
    /\ j \in wpos[w]..(Len(wchunks[w]) - 1)
    /\ r \in 1..ChunkScenes(disk, wchunks[w][j + 1])
    /\ j = wpos[w] => r > wrun[w]

\* next() on the generator of worker w returns an example: the loop runs on,
\* skipping scenes, to the yield of scene r of chunk j + 1 and is suspended
\* there; the chunk is not finished.
NextYield(w) ==
    /\ wpc[w] = "iterating"
    /\ \E j \in 0..(Len(wchunks[w]) - 1), r \in 1..disk.nscenes :
         /\ Ahead(w, j, r)
         /\ CanLoadUpTo(w, j + 1)
         /\ wpos' = [wpos EXCEPT ![w] = j]
         /\ wrun' = [wrun EXCEPT ![w] = r]
    /\ emitted' = TRUE
    /\ UNCHANGED <<cfg, disk, status, chunks0, indexCache, lenOutcome, wchunks, wpc, passNo>>
    /\ UNCHANGED <<scVars, bsVars>>

\* next() raises: the loop runs on, skipping scenes, and an exception leaves
\* the generator with chunks left: loading chunk j + 1 fails (the file is
\* missing, or "assert len(item) == 1" under overfit_to_scene), or scene r of
\* it raises (an index past its frames, a singular matrix, torch.stack).
NextRaise(w) ==
    /\ wpc[w] = "iterating"
    /\ \E j \in 0..(Len(wchunks[w]) - 1) :
         /\ j \in wpos[w]..(Len(wchunks[w]) - 1)
         /\ CanLoadUpTo(w, j)
         /\ \/ /\ j > wpos[w] \/ wrun[w] = 0
               /\ ~Loadable(disk, wchunks[w][j + 1]) \/ cfg.overfit_to_scene # None
               /\ wrun' = [wrun EXCEPT ![w] = 0]
            \/ \E r \in 1..disk.nscenes :
                  /\ Ahead(w, j, r)
                  /\ CanLoadUpTo(w, j + 1)
                  /\ wrun' = [wrun EXCEPT ![w] = r]
         /\ wpos' = [wpos EXCEPT ![w] = j]
    /\ wpc' = [wpc EXCEPT ![w] = "failed"]
    /\ UNCHANGED <<cfg, disk, status, chunks0, indexCache, lenOutcome, wchunks, passNo, emitted>>
    /\ UNCHANGED <<scVars, bsVars>>

\* next() raises StopIteration: the loop runs on, skipping every scene left,
\* to the end of the chunk list.
IterEnd(w) ==
    /\ wpc[w] = "iterating"
    /\ CanLoadUpTo(w, Len(wchunks[w]))
    /\ wpos' = [wpos EXCEPT ![w] = Len(wchunks[w])]
    /\ wrun' = [wrun EXCEPT ![w] = 0]
    /\ wpc' = [wpc EXCEPT ![w] = "exhausted"]
    /\ UNCHANGED <<cfg, disk, status, chunks0, indexCache, lenOutcome, wchunks, passNo, emitted>>
    /\ UNCHANGED <<scVars, bsVars>>

\* The chunks worker w has processed in the current pass: those it finished
\* and the one it has taken scenes of.
Processed(w) ==
    {wchunks[w][i] : i \in 1..wpos[w]}
    \cup (IF wrun[w] > 0 THEN {wchunks[w][wpos[w] + 1]} ELSE {})

----------------------------------------------------------------------------
(* Exact arithmetic on vectors and on values divided by a square root.     *)

Sub(a, b) == <<a[1] - b[1], a[2] - b[2], a[3] - b[3]>>
Neg(a) == <<-a[1], -a[2], -a[3]>>
Dot(a, b) == a[1] * b[1] + a[2] * b[2] + a[3] * b[3]
Cross(a, b) == <<a[2] * b[3] - a[3] * b[2],
                 a[3] * b[1] - a[1] * b[3],
                 a[1] * b[2] - a[2] * b[1]>>
Zero3 == <<0, 0, 0>>

\* The float x, written x / sqrt(1).
Exact(x) == [v |-> x, s2 |-> 1]

\* x / scale, where q is the square of scale (q = 0: division by zero).
DivBy(x, q) == [v |-> x.v, s2 |-> x.s2 * q]

\* A finite float: no division by zero went into it.
Finite(x) == x.s2 > 0

----------------------------------------------------------------------------
(* Camera Frame Builder, direction-encoded path: the basis and the matrix  *)
(* of each frame of a chunk.                                               *)

CrossSize == 3            \* torch.cross without dim: the first dimension of size 3
CenterScale == 8          \* the factor 0.8, in tenths

NaN3 == [v |-> Zero3, s2 |-> 0]

Abs(x) == IF x < 0 THEN -x ELSE x

\* The sign of x / sqrt(n) - y / sqrt(m), for n, m > 0.
CompareSurds(x, n, y, m) ==
    LET z == x * Abs(x) * m - y * Abs(y) * n
    IN  IF z > 0 THEN 1 ELSE IF z < 0 THEN -1 ELSE 0

\* x / sqrt((x * x).sum(dim=-1)), one frame: 0 / 0 and anything built from a
\* NaN is NaN
normalize(x) ==
    IF ~Finite(x) \/ Dot(x.v, x.v) = 0 THEN NaN3
    ELSE [v |-> x.v, s2 |-> Dot(x.v, x.v)]

\* The cross product of the vectors of one frame.
cross(a, b) == [v |-> Cross(a.v, b.v), s2 |-> a.s2 * b.s2]

\* Frame i of normalize(torch.cross(a, b)) when the product runs along the
\* three frames, for b whose x and y are 0 (or NaN) in every frame: x and y of
\* the product are 0, z is a[j].z * b[k].z - a[k].z * b[j].z for the two other
\* frames j, k in cyclic order, and the normalized vector is (0, 0, sign z).
CrossAlongFramesAt(a, b, i) ==
    LET j == (i % CrossSize) + 1
        k == ((i + 1) % CrossSize) + 1
    IN  IF ~Finite(a[j]) \/ ~Finite(a[k]) \/ ~Finite(b[j]) \/ ~Finite(b[k]) THEN NaN3
        ELSE LET z == CompareSurds(a[j].v[3] * b[k].v[3], a[j].s2 * b[k].s2,
                                   a[k].v[3] * b[j].v[3], a[k].s2 * b[j].s2)
             IN  IF z = 0 THEN NaN3 ELSE Exact(<<0, 0, z>>)

\* self.normalize(torch.cross(a, b)) on tensors of shape (B, 1, 3): without dim
\* the product is taken along the first dimension of size 3, the frames when
\* B = 3 and x, y, z otherwise.
normalize_cross(a, b) ==
    [i \in 1..Len(a) |->
        IF Len(a) = CrossSize THEN CrossAlongFramesAt(a, b, i)
        ELSE normalize(cross(a[i], b[i]))]

\* get_forward_up_right_tensor, on the forward vectors of the frames
get_forward_up_right_tensor(to_light) ==
    LET f     == [i \in 1..Len(to_light) |-> normalize(to_light[i])]
        up0   == [i \in 1..Len(to_light) |-> Exact(<<0, 0, 1>>)]
        right == normalize_cross(f, up0)
        up    == normalize_cross(f, right)
    IN  [forward |-> f, up |-> up, right |-> right]

\* camera_position = direction[..., 127, 127, :] * 0.8, in tenths
camera_position(d) == <<CenterScale * d[1], CenterScale * d[2], CenterScale * d[3]>>

\* A frame's matrix holds a NaN.
HasNaN(m) == ~Finite(m.col1) \/ ~Finite(m.col2) \/ ~Finite(m.col3)

\* A frame's matrix without NaN has determinant 0.
Singular(m) == ~HasNaN(m) /\ Dot(Cross(m.col1.v, m.col2.v), m.col3.v) = 0

\* The translation of the inverse of one frame's matrix [right, up, forward,
\* -center]: NaN for a matrix that holds a NaN; for orthonormal columns the
\* rotation of the inverse is the transpose, the translation is (right . center,
\* up . center, forward . center), and right and up are orthogonal to the
\* center, which lies along forward.
inverse_translation(m) ==
    IF HasNaN(m) THEN NaN3
    ELSE [v  |-> <<-Dot(m.col1.v, m.col4.v), -Dot(m.col2.v, m.col4.v),
                   -Dot(m.col3.v, m.col4.v)>>,
          s2 |-> m.col3.s2]

\* forward = -direction[..., 127, 127, :], per frame
forward_of(ds) == [i \in 1..Len(ds) |-> Exact(Neg(ds[i]))]

\* The columns written into the 4x4 identity of each frame: right, up,
\* forward and -camera_position.
Columns(b, ds) ==
    [i \in 1..Len(ds) |->
        [col1 |-> b.right[i], col2 |-> b.up[i], col3 |-> b.forward[i],
         col4 |-> Exact(Neg(camera_position(ds[i])))]]

\* extrinsics.inverse() raises: the matrix of some frame is singular.
InverseRaises(ms) == \E i \in 1..Len(ms) : Singular(ms[i])

\* The same float written with the smallest square under the root: x / sqrt(r * r)
\* is (x / r) / sqrt(1).
Canonical(x) ==
    LET roots == {r \in 1..x.s2 : r * r = x.s2 /\ \A k \in 1..3 : x.v[k] % r = 0}
    IN  IF ~Finite(x) THEN NaN3
        ELSE IF roots = {} THEN x
        ELSE LET r == CHOOSE q \in roots : TRUE
             IN  Exact(<<x.v[1] \div r, x.v[2] \div r, x.v[3] \div r>>)

\* The matrices the zst path builds from the directions of a chunk.
ChunkMatrices(ds) == Columns(get_forward_up_right_tensor(forward_of(ds)), ds)

\* extrinsics[:, :3, 3] after extrinsics.inverse(), per frame of the chunk.
ChunkTranslations(ds) ==
    LET ms == ChunkMatrices(ds)
    IN  [i \in 1..Len(ds) |-> Canonical(inverse_translation(ms[i]))]

----------------------------------------------------------------------------
(* Scene level: the body of the loops of __iter__ for one scene.           *)

NearDefault == 1          \* near: float = 0.1, in tenths
FarDefault == 10000       \* far: float = 1000.0, in tenths
UseDefault == -10         \* cfg.near / cfg.far of -1, in tenths
ZstFov == 90              \* field of view of intrinsics with focal length 0.5
NarrowFov == 60
WideFov == 170

Formats == {"zst", "torch"}
Epsilons == {0, 40}
MaxFovs == {80, 100}
NearFarCfgs == {<<UseDefault, UseDefault>>, <<5, 2000>>}
\* Translations of the torch path (any inverse of a stored pose), in tenths.
TransList == <<(<<0, 0, 0>>), (<<30, 0, 0>>), (<<0, 40, 0>>)>>
Trans == Range(TransList)

\* Directions at the principal pixel of the frames of a .zst chunk: two off the
\* z axis, of length 1 and 3, the direction along the z axis, and no direction.
OffAxis == <<(<<1, 0, 0>>), (<<1, 2, -2>>)>>
OnAxis == {<<0, 0, -1>>, <<0, 0, 0>>}

\* Height and width of images: the shape (3, 360, 640) the torch path checks,
\* another shape a stored image may have, and the 256 x 256 the zst path
\* reshapes to.
CheckedShape == <<360, 640>>
OtherShape == <<100, 100>>
ZstShape == <<256, 256>>

\* context_indices = torch.Tensor([9,15,34,45]).int() / torch.tensor([0,1]).int()
ZstContext == <<9, 15, 34, 45>>
TorchContext == <<0, 1>>
ContextOverride(format) == IF format = "zst" THEN ZstContext ELSE TorchContext

\* if cfg.near != -1: self.near = cfg.near  (and the same for far)
ResolveBound(configured, default) == IF configured # UseDefault THEN configured ELSE default

\* The smallest frame count for which the fixed zst context indices exist.
BigScene == ZstContext[Len(ZstContext)] + 1

\* The directions of the .zst chunks.  Short chunks: the frames run through
\* the directions from any start with any step (step 0: one direction for all
\* frames).  Chunks just long enough for the fixed context indices: the first
\* frame, the first context frame or no frame lies on the z axis.
AllDirections == OffAxis \o <<(<<0, 0, -1>>), (<<0, 0, 0>>)>>

SmallChunks ==
    {[i \in 1..n |-> AllDirections[((start + (i - 1) * step) % Len(AllDirections)) + 1]] :
        n \in 1..MaxFrames, start \in 0..(Len(AllDirections) - 1),
        step \in 0..(Len(AllDirections) - 1)}

BigChunks ==
    {[i \in 1..BigScene |-> IF i = pole THEN d ELSE OffAxis[((i + seed) % Len(OffAxis)) + 1]] :
        seed \in 0..(Len(OffAxis) - 1), d \in OnAxis, pole \in {0, 1, ZstContext[1] + 1}}

ZstChunks == SmallChunks \cup BigChunks

\* The scene of a .zst chunk whose matrices were inverted.  Each frame carries
\* what the Camera Frame Builder produced for it: the translation
\* extrinsics[i, :3, 3] (NaN where the matrix held a NaN), the field of view
\* get_fov gives for the fixed intrinsics, and the shape of its image.
ZstScene(ds) ==
    LET ts == ChunkTranslations(ds)
    IN  [i \in 1..Len(ds) |-> [t |-> ts[i], fov |-> ZstFov, image |-> ZstShape]]

\* The scenes a .torch chunk may hold: the translations of the stored poses,
\* any for the two frames of the fixed context and in turn from any start for
\* the frames after them;
\* no frame, the first or the last has a wide field of view; no image, the
\* last or every image has another shape than the checked one (a scene with
\* a wide frame is left before its images are read).
FramePatterns(n) == {<<0, 0>>, <<0, n>>, <<0, n + 1>>, <<1, 0>>, <<n, 0>>}

TorchScenes ==
    UNION {
        {[i \in 1..n |-> [t     |-> Exact(IF i <= Len(TorchContext) THEN ts[i]
                                          ELSE TransList[((i + seed) % Len(TransList)) + 1]),
                          fov   |-> IF i = p[1] THEN WideFov ELSE NarrowFov,
                          image |-> IF i = p[2] \/ p[2] = n + 1 THEN OtherShape
                                    ELSE CheckedShape]] :
            ts \in [1..Len(TorchContext) -> Trans], seed \in 0..(Len(TransList) - 1),
            p \in FramePatterns(n)}
        : n \in 1..MaxFrames}

\* get_fov(intrinsics).rad2deg(), per frame
get_fov(fs) == [i \in 1..Len(fs) |-> fs[i].fov]

FovTooWideRetainedOnly(fs, ctx, tgt, max_fov) ==
    \E i \in 1..Len(fs) : (i - 1) \in Range(ctx) \cup Range(tgt) /\ get_fov(fs)[i] > max_fov

\* (get_fov(intrinsics).rad2deg() > self.cfg.max_fov).any()
FovTooWide(fs, ctx, tgt, max_fov) == \E i \in 1..Len(fs) : get_fov(fs)[i] > max_fov

\* view_sampler.sample: raises ValueError, or returns index lists into the
\* scene (here: lists of up to MaxTargets of its first MaxFrames indices).
ViewSamplerResults(n) ==
    LET usable == 0..((IF n < MaxFrames THEN n ELSE MaxFrames) - 1)
    IN  {[context |-> c, target |-> t] :
            c \in SeqsUpTo(usable, 1, MaxTargets), t \in SeqsUpTo(usable, 1, MaxTargets)}

\* example["images"][index.item()] exists for every index of the list
IndicesValid(n, indices) == \A k \in 1..Len(indices) : indices[k] \in 0..(n - 1)

ScaleBelowEpsilonNever(scale2, epsilon) == FALSE

\* scale < self.cfg.baseline_epsilon, scale being the root of scale2 >= 0
ScaleBelowEpsilon(scale2, epsilon) == epsilon > 0 /\ scale2 < epsilon * epsilon

\* (a - b).norm(), squared
BaselineScale2(extr, ctx) ==
    LET a == extr[ctx[1] + 1].v
        b == extr[ctx[2] + 1].v
    IN  Dot(Sub(a, b), Sub(a, b))

DivideContextOnly(extr, ctx, scale2) ==
    [i \in 1..Len(extr) |-> IF (i - 1) \in Range(ctx) THEN DivBy(extr[i], scale2) ELSE extr[i]]

\* extrinsics[:, :3, 3] /= scale
DivideTranslations(extr, ctx, scale2) == [i \in 1..Len(extr) |-> DivBy(extr[i], scale2)]

nf_scale_always(c, scale2) == scale2

\* nf_scale = scale if self.cfg.baseline_scale_bounds else 1.0
nf_scale(c, scale2) == IF c.baseline_scale_bounds THEN scale2 ELSE 1

\* get_bound(bound, num_views): the instance attribute, once per view
get_bound(c, bound, num_views) == [k \in 1..num_views |-> Exact(c[bound])]

\* [example["images"][index.item()] for index in indices]
images_at(fs, indices) == [k \in 1..Len(indices) |-> fs[indices[k] + 1].image]

\* torch.stack / torch.cat accept the list: it is not empty and its images
\* have one shape.
Stackable(imgs) == imgs # <<>> /\ \A k \in 1..Len(imgs) : imgs[k] = imgs[1]

\* context_images.shape[1:] != (3, 360, 640)
image_invalid(imgs) == imgs[1] # CheckedShape

\* One group of the example dictionary.
Group(c, extr, indices, imgs, scale2) ==
    [extrinsics |-> [k \in 1..Len(indices) |-> extr[indices[k] + 1]],
     image      |-> imgs,
     near       |-> [k \in 1..Len(indices) |->
                        DivBy(get_bound(c, "near", Len(indices))[k], nf_scale(c, scale2))],
     far        |-> [k \in 1..Len(indices) |->
                        DivBy(get_bound(c, "far", Len(indices))[k], nf_scale(c, scale2))],
     index      |-> indices]

BuildExample(c, extr, ctx, tgt, cimgs, timgs, scale2) ==
    [context |-> Group(c, extr, ctx, cimgs, scale2),
     target  |-> Group(c, extr, tgt, timgs, scale2)]

\* The mirror of the world in x, on a camera translation.
Reflect(x) == [v |-> <<-x.v[1], x.v[2], x.v[3]>>, s2 |-> x.s2]

ReflectGroup(g) ==
    [g EXCEPT !.extrinsics = [k \in 1..Len(g.extrinsics) |-> Reflect(g.extrinsics[k])]]

\* apply_augmentation_shim(example): a pure Example -> Example that either
\* returns the example or mirrors all of its views together.
apply_augmentation_shim(ex) ==
    {ex, [context |-> ReflectGroup(ex.context), target |-> ReflectGroup(ex.target)]}

CropGroup(g, shape) == [g EXCEPT !.image = [k \in 1..Len(g.image) |-> shape]]

\* apply_crop_shim(example, shape): a pure Example -> Example that brings the
\* images of both groups to the configured shape.
apply_crop_shim(ex, shape) ==
    [context |-> CropGroup(ex.context, shape), target |-> CropGroup(ex.target, shape)]

\* if self.stage == "train" and self.cfg.augment
Augmenting(c) == c.stage = "train" /\ c.augment

\* The loop takes the next scene and the Camera Frame Builder runs.  In the
\* zst path it builds the matrices from the directions of the chunk and
\* inverts them: extrinsics.inverse() raises out of the generator, or gives the
\* extrinsics of the frames.  In the torch path convert_poses gives them.
LoadScene ==
    /\ spc = "next"
    /\ IF scfg.format = "zst"
       THEN \E ds \in ZstChunks :
              /\ direction' = ds
              /\ IF InverseRaises(ChunkMatrices(ds))
                 THEN /\ frames' = <<>>
                      /\ extrinsics' = <<>>
                      /\ spc' = "load_error"
                 ELSE /\ frames' = ZstScene(ds)
                      /\ extrinsics' = ChunkTranslations(ds)
                      /\ spc' = "loaded"
       ELSE \E fs \in TorchScenes :
              /\ frames' = fs
              /\ extrinsics' = [i \in 1..Len(fs) |-> fs[i].t]
              /\ spc' = "loaded"
              /\ UNCHANGED direction
    /\ UNCHANGED <<scfg, context_indices, target_indices, context_images, target_images,
                   scale, example, skipReason, dsVars, bpc, basis, c2w, w2c>>

\* continue, or the return from the yield: on to the next scene.
Continue ==
    /\ spc \in {"emitted", "skipped"}
    /\ spc' = "next"
    /\ frames' = <<>>
    /\ direction' = <<>>
    /\ extrinsics' = <<>>
    /\ context_indices' = <<>>
    /\ target_indices' = <<>>
    /\ context_images' = <<>>
    /\ target_images' = <<>>
    /\ scale' = 1
    /\ example' = NoExample
    /\ skipReason' = "none"
    /\ UNCHANGED <<scfg, dsVars, bpc, basis, c2w, w2c>>

\* try: sample ... except ValueError: continue.  The sampled context indices
\* are replaced at once by the fixed list of the path.
SampleViews ==
    /\ spc = "loaded"
    /\ \/ /\ spc' = "skipped"
          /\ skipReason' = "frames"
          /\ UNCHANGED <<context_indices, target_indices>>
       \/ \E target \in {r.target : r \in ViewSamplerResults(Len(frames))} :
            /\ context_indices' = ContextOverride(scfg.format)
            /\ target_indices' = target
            /\ spc' = "sampled"
            /\ UNCHANGED skipReason
    /\ UNCHANGED <<scfg, frames, extrinsics, context_images, target_images, scale, example,
                   dsVars, bsVars>>

\* Skip the example if the field of view is too wide.
FovCheck ==
    /\ spc = "sampled"
    /\ IF FovTooWide(frames, context_indices, target_indices, scfg.max_fov)
       THEN spc' = "skipped" /\ skipReason' = "fov"
       ELSE spc' = "fov_ok" /\ UNCHANGED skipReason
    /\ UNCHANGED <<scfg, frames, context_indices, target_indices, context_images,
                   target_images, extrinsics, scale, example, dsVars, bsVars>>

\* Load the images, the context list and then the target list: indexing past
\* the scene raises IndexError and torch.stack raises on images of unequal
\* shapes, and nothing catches either.  In the torch path a shape other than
\* the checked one skips the scene when skip_bad_shape is set; otherwise the
\* images are kept as they are.
LoadImages ==
    /\ spc = "fov_ok"
    /\ LET cimgs == images_at(frames, context_indices)
           timgs == images_at(frames, target_indices)
       IN  IF ~IndicesValid(Len(frames), context_indices)
           THEN spc' = "error" /\ UNCHANGED <<context_images, target_images, skipReason>>
           ELSE IF ~Stackable(cimgs)
           THEN spc' = "image_error" /\ UNCHANGED <<context_images, target_images, skipReason>>
           ELSE IF ~IndicesValid(Len(frames), target_indices)
           THEN spc' = "error" /\ UNCHANGED <<context_images, target_images, skipReason>>
           ELSE IF ~Stackable(timgs)
           THEN spc' = "image_error" /\ UNCHANGED <<context_images, target_images, skipReason>>
           ELSE /\ context_images' = cimgs
                /\ target_images' = timgs
                /\ IF /\ scfg.format = "torch"
                      /\ scfg.skip_bad_shape
                      /\ image_invalid(cimgs) \/ image_invalid(timgs)
                   THEN spc' = "skipped" /\ skipReason' = "shape"
                   ELSE spc' = "gathered" /\ UNCHANGED skipReason
    /\ UNCHANGED <<scfg, frames, context_indices, target_indices, extrinsics, scale,
                   example, dsVars, bsVars>>

\* Resize the world to make the baseline 1.
Normalize ==
    /\ spc = "gathered"
    /\ IF Len(context_indices) = 2 /\ scfg.make_baseline_1
       THEN LET s2 == BaselineScale2(extrinsics, context_indices)
            IN  IF ScaleBelowEpsilon(s2, scfg.baseline_epsilon)
                THEN /\ spc' = "skipped"
                     /\ skipReason' = "baseline"
                     /\ UNCHANGED <<extrinsics, scale>>
                ELSE /\ extrinsics' = DivideTranslations(extrinsics, context_indices, s2)
                     /\ scale' = s2
                     /\ spc' = "normalized"
                     /\ UNCHANGED skipReason
       ELSE /\ scale' = 1
            /\ spc' = "normalized"
            /\ UNCHANGED <<extrinsics, skipReason>>
    /\ UNCHANGED <<scfg, frames, context_indices, target_indices, context_images,
                   target_images, example, dsVars, bsVars>>

\* The example dictionary is built, passed through the augmentation shim in
\* the train stage and through the crop shim, and yielded.
Emit ==
    /\ spc = "normalized"
    /\ LET built == BuildExample(scfg, extrinsics, context_indices, target_indices,
                                 context_images, target_images, scale)
       IN  \E augmented \in (IF Augmenting(scfg) THEN apply_augmentation_shim(built)
                              ELSE {built}) :
              example' = <<apply_crop_shim(augmented, scfg.image_shape)>>
    /\ spc' = "emitted"
    /\ UNCHANGED <<scfg, frames, context_indices, target_indices, context_images,
                   target_images, extrinsics, scale, skipReason, dsVars, bsVars>>

----------------------------------------------------------------------------
(* Camera Frame Builder, direction-encoded path, step by step.             *)

\* forward = -direction[..., 127, 127, :]; forward, up, right = get_forward_up_right_tensor(forward)
BuildBasis ==
    /\ bpc = "input"
    /\ basis' = get_forward_up_right_tensor(forward_of(direction))
    /\ bpc' = "basis"
    /\ UNCHANGED <<direction, c2w, w2c, dsVars, scVars>>

\* The columns written into the 4x4 identity of each frame.
BuildMatrix ==
    /\ bpc = "basis"
    /\ c2w' = Columns(basis, direction)
    /\ bpc' = "matrix"
    /\ UNCHANGED <<direction, basis, w2c, dsVars, scVars>>

\* extrinsics = extrinsics.inverse(): raises when a frame's matrix is singular
Invert ==
    /\ bpc = "matrix"
    /\ IF InverseRaises(c2w)
       THEN bpc' = "error" /\ UNCHANGED w2c
       ELSE /\ w2c' = [i \in 1..Len(c2w) |-> inverse_translation(c2w[i])]
            /\ bpc' = "inverted"
    /\ UNCHANGED <<direction, basis, c2w, dsVars, scVars>>

----------------------------------------------------------------------------
(* Initial states and specifications.                                      *)

Intervals == {1, 2}

IdleScene ==
    /\ scfg = None
    /\ frames = <<>>
    /\ spc = "off"
    /\ context_indices = <<>>
    /\ target_indices = <<>>
    /\ context_images = <<>>
    /\ target_images = <<>>
    /\ extrinsics = <<>>
    /\ scale = 1
    /\ example = NoExample
    /\ skipReason = "none"

IdleBasis ==
    /\ direction = <<>>
    /\ bpc = "off"
    /\ basis = None
    /\ c2w = <<>>
    /\ w2c = <<>>

NewDataset ==
    /\ status = "new"
    /\ chunks0 = <<>>
    /\ indexCache = Uncached
    /\ lenOutcome = "none"
    /\ wchunks = [w \in WorkerIds(cfg) |-> <<>>]
    /\ wpc = [w \in WorkerIds(cfg) |-> "idle"]
    /\ wpos = [w \in WorkerIds(cfg) |-> 0]
    /\ wrun = [w \in WorkerIds(cfg) |-> 0]
    /\ passNo = 0
    /\ emitted = FALSE

IdleDataset ==
    /\ cfg = None
    /\ disk = None
    /\ status = "off"
    /\ chunks0 = <<>>
    /\ indexCache = Uncached
    /\ lenOutcome = "none"
    /\ wchunks = <<>>
    /\ wpc = <<>>
    /\ wpos = <<>>
    /\ wrun = <<>>
    /\ passNo = 0
    /\ emitted = FALSE

\* Scenes a chunk may hold.
SceneCounts == {1, 2}

\* The stage directories of the data roots.
Dirs(roots) == {"test", "train"} \X roots

\* The index files over some of the keys, each entry naming one of the files.
IndexFiles(keys, names) == UNION {[ks -> names] : ks \in SUBSET keys}

\* Workers of the train and val stages: each iterates its own copy of the
\* whole list, whatever their number.
ShuffleWorkers == {0, 1, 2}

\* The chunk files a second data root may add.
SecondRootFiles == {1}

\* One data root with up to MaxShards chunk files in each stage directory, one
\* or two scenes in each chunk, and a sound index whose entry of scene "a"
\* names any file, present or not; or two roots of one chunk file of one scene
\* in each directory, the index of the second holding scene "a" again.
\* test_chunk_interval is read in the test stage only, shuffle_val decides
\* nothing outside the val stage, and the index entry decides nothing without
\* overfit_to_scene: elsewhere they take one value.
Init ==
    /\ cfg \in {c \in [stage : Stages, shuffle_val : BOOLEAN, roots : {<<1>>, <<1, 2>>},
                        overfit_to_scene : {None, "a"}, test_chunk_interval : Intervals,
                        num_workers : 0..MaxWorkers] :
                    /\ c.stage # "test" => c.test_chunk_interval = 1
                    /\ c.stage # "val" => c.shuffle_val
                    /\ c.stage # "test" => c.num_workers \in ShuffleWorkers}
    /\ disk \in {[nfiles  |-> [p \in Dirs(1..2) |-> IF p[2] = 1 THEN n ELSE m],
                  index   |-> [p \in Dirs(1..2) |->
                                  IF p[1] = "test" THEN [k \in {"a"} |-> IF p[2] = 1 THEN v ELSE 1]
                                  ELSE [k \in {"b"} |-> 1]],
                  nscenes |-> sc] :
                    n \in 0..MaxShards, m \in {0} \cup SecondRootFiles,
                    v \in 1..MaxShards, sc \in SceneCounts}
    /\ cfg.overfit_to_scene = None => disk.index[<<"test", 1>>]["a"] = 1
    /\ disk.nfiles[<<"test", 2>>] > 0 <=> Len(cfg.roots) > 1
    /\ Len(cfg.roots) > 1 => disk.nfiles[<<"test", 1>>] = 1 /\ disk.nscenes = 1
    /\ NewDataset
    /\ IdleScene
    /\ IdleBasis

\* The test stage: one data root, more chunk files of one scene, more workers.
InitTest ==
    /\ cfg \in [stage : {"test"}, shuffle_val : BOOLEAN, roots : {<<1>>},
                overfit_to_scene : {None}, test_chunk_interval : Intervals,
                num_workers : 1..MaxTestWorkers]
    /\ disk \in {[nfiles  |-> [p \in Dirs({1}) |-> n],
                  index   |-> [p \in Dirs({1}) |->
                                  IF p[1] = "test" THEN [k \in {"a"} |-> 1]
                                  ELSE [k \in {"b"} |-> 1]],
                  nscenes |-> 1] :
                    n \in 0..MaxTestShards}
    /\ NewDataset
    /\ IdleScene
    /\ IdleBasis

\* One or two data roots with one chunk file of one scene in each directory
\* and any index files, whose entries name that file or, in the test
\* directories, a missing one.
InitIndex ==
    /\ cfg \in [stage : Stages, shuffle_val : {TRUE}, roots : {<<1>>, <<1, 2>>},
                overfit_to_scene : {None} \cup Keys, test_chunk_interval : {1},
                num_workers : {0}]
    /\ disk \in [nfiles  : [Dirs(1..2) -> {1}],
                 index   : {f \in [Dirs(1..2) -> IndexFiles(Keys, 1..2)] :
                               \A p \in Dirs(1..2) :
                                   p[1] = "train" => \A k \in DOMAIN f[p] : f[p][k] = 1},
                 nscenes : {1}]
    /\ NewDataset
    /\ IdleScene
    /\ IdleBasis

\* The stage and cfg.augment: augment decides nothing outside the train stage.
StageAugment == {<<"train", TRUE>>, <<"train", FALSE>>, <<"test", TRUE>>}

\* skip_bad_shape is read in the torch path only, and baseline_epsilon only
\* when make_baseline_1 is set and the context has two views, which the fixed
\* context of the zst path never has: elsewhere they take one value.
\* The caps tried for a format: both sides of the fixed field of view of the
\* zst path; in the torch path every cap between NarrowFov and WideFov decides
\* alike, and one is tried.
FovCaps(format) == IF format = "zst" THEN MaxFovs ELSE {m \in MaxFovs : m > ZstFov}

InitScene ==
    /\ scfg \in {[format                |-> f,
                  stage                 |-> sa[1],
                  augment               |-> sa[2],
                  image_shape           |-> <<256, 256>>,
                  skip_bad_shape        |-> sk,
                  make_baseline_1       |-> mb,
                  baseline_scale_bounds |-> sb,
                  baseline_epsilon      |-> eps,
                  max_fov               |-> mf,
                  near                  |-> ResolveBound(nfc[1], NearDefault),
                  far                   |-> ResolveBound(nfc[2], FarDefault),
                  cfg_near              |-> nfc[1],
                  cfg_far               |-> nfc[2]] :
                    f \in Formats, mb \in BOOLEAN, sb \in BOOLEAN, eps \in Epsilons,
                    mf \in MaxFovs, nfc \in NearFarCfgs, sa \in StageAugment,
                    sk \in BOOLEAN}
    /\ scfg.max_fov \in FovCaps(scfg.format)
    /\ scfg.format = "zst" => scfg.skip_bad_shape
    /\ (~scfg.make_baseline_1 \/ scfg.format = "zst") => scfg.baseline_epsilon = 0
    /\ frames = <<>>
    /\ spc = "next"
    /\ context_indices = <<>>
    /\ target_indices = <<>>
    /\ context_images = <<>>
    /\ target_images = <<>>
    /\ extrinsics = <<>>
    /\ scale = 1
    /\ example = NoExample
    /\ skipReason = "none"
    /\ IdleDataset
    /\ IdleBasis

Directions == (-MaxCoord..MaxCoord) \X (-MaxCoord..MaxCoord) \X (-MaxCoord..MaxCoord)

\* Directions of the frames after the first, picked from a fixed list: in
\* cyclic order from any start, or the same for all.
Mates == <<(<<0, 1, 0>>), (<<2, 0, 1>>), (<<1, 0, 0>>), (<<0, 0, -1>>)>>

MateLists ==
    {[i \in 1..(MaxBatch - 1) |-> Mates[((i + seed) % Len(Mates)) + 1]] :
        seed \in 0..(Len(Mates) - 1)}
    \cup {[i \in 1..(MaxBatch - 1) |-> Mates[s]] : s \in 1..Len(Mates)}

\* Chunks of up to MaxBatch frames: any direction in the first frame.
Batches ==
    {[i \in 1..n |-> IF i = 1 THEN d ELSE m[i - 1]] :
        d \in Directions, n \in 1..MaxBatch, m \in MateLists}

InitBasis ==
    /\ direction \in Batches
    /\ bpc = "input"
    /\ basis = None
    /\ c2w = <<>>
    /\ w2c = <<>>
    /\ IdleDataset
    /\ IdleScene

Next ==
    \/ Construct
    \/ DatasetLen
    \/ NewPass
    \/ \E w \in WorkerIds(cfg) : IterStart(w)
    \/ \E w \in WorkerIds(cfg) : NextYield(w)
    \/ \E w \in WorkerIds(cfg) : NextRaise(w)
    \/ \E w \in WorkerIds(cfg) : IterEnd(w)

NextScene == LoadScene \/ Continue \/ SampleViews \/ FovCheck \/ LoadImages \/ Normalize \/ Emit

NextBasis == BuildBasis \/ BuildMatrix \/ Invert

Spec == Init /\ [][Next]_vars
SpecTest == InitTest /\ [][Next]_vars
SpecIndex == InitIndex /\ [][Next]_vars
SpecScene == InitScene /\ [][NextScene]_vars
SpecBasis == InitBasis /\ [][NextBasis]_vars

----------------------------------------------------------------------------
(* Properties of the passes over the shard list.                           *)

ManyWorkers == cfg.num_workers > 1

\* The two lists hold the same shards, each as many times.
IsPermutation(s, t) ==
    /\ Len(s) = Len(t)
    /\ \A x \in Range(s) \cup Range(t) : Count(x, s) = Count(x, t)

NoSharedShard ==
    \A w1, w2 \in WorkerIds(cfg) : w1 # w2 => Processed(w1) \cap Processed(w2) = {}

\* C1, as stated: with more than one worker, in any stage, no shard is
\* processed by two different workers within one pass.
C1_DisjointInAnyStage == ManyWorkers => NoSharedShard

\* Worker w iterates the whole shard list: the list its pass runs over holds
\* every shard as often as the constructed list, in the same order unless the
\* stage shuffles, and a pass that has run to its end has processed them all.
WholeList(w) ==
    /\ IsPermutation(wchunks[w], chunks0)
    /\ ~ShuffleStage(cfg) => wchunks[w] = chunks0
    /\ wpc[w] = "exhausted" => Processed(w) = Range(chunks0)

\* C1, amended: with more than one worker, in the test stage and with distinct
\* shard files (overfit_to_scene unset), no shard is processed by two different
\* workers within one pass; in the train and val stages the list is not
\* partitioned: every worker iterates the whole shard list, in the order of its
\* own shuffle where the stage shuffles and in the order of the list otherwise,
\* and a worker whose pass runs to its end has processed every shard of it.
C1_DisjointInTestStage ==
    (ManyWorkers /\ status = "constructed") =>
        /\ (cfg.stage = "test" /\ cfg.overfit_to_scene = None) => NoSharedShard
        /\ cfg.stage # "test" => \A w \in WorkerIds(cfg) : WholeList(w)

\* Two test workers have both finished a pass in which each processed a shard.
C1_Witness ==
    /\ cfg.stage = "test"
    /\ cfg.num_workers = 2
    /\ cfg.overfit_to_scene = None
    /\ \A w \in WorkerIds(cfg) : wpc[w] = "exhausted" /\ Processed(w) # {}

\* The positions of the shard list that go to worker id.
PositionsOf(id) == {p \in 0..(Len(chunks0) - 1) : p % cfg.num_workers = id}

\* C2: in the test stage, on the first pass, worker i holds exactly the shards
\* at the positions p with p mod W = i, in order, and once every worker has
\* taken its share each shard of the list is held by exactly one worker, once.
C2_TestPartitionExact ==
    (cfg.stage = "test" /\ cfg.num_workers >= 1 /\ passNo = 1) =>
        /\ \A w \in WorkerIds(cfg) :
              wpc[w] # "idle" =>
                  /\ Len(wchunks[w]) = Cardinality(PositionsOf(w))
                  /\ \A p \in PositionsOf(w) :
                        wchunks[w][(p \div cfg.num_workers) + 1] = chunks0[p + 1]
        /\ (\A w \in WorkerIds(cfg) : wpc[w] # "idle") =>
              \A x \in Range(chunks0) :
                  /\ Cardinality({w \in WorkerIds(cfg) : x \in Range(wchunks[w])}) = 1
                  /\ \A w \in WorkerIds(cfg) : Count(x, wchunks[w]) <= Count(x, chunks0)

\* Three test workers have split a list of five shards on the first pass.
C2_Witness ==
    /\ cfg.stage = "test"
    /\ cfg.num_workers = 3
    /\ Len(chunks0) = 5
    /\ passNo = 1
    /\ \A w \in WorkerIds(cfg) : wpc[w] = "iterating"

\* Two of the index files the index property merges share a scene key.
DuplicateKeys ==
    LET stages == IF cfg.overfit_to_scene # None THEN {"test", "train"} ELSE {data_stage(cfg)}
        files  == stages \X Range(cfg.roots)
    IN  \E f1, f2 \in files :
            f1 # f2 /\ (DOMAIN disk.index[f1]) \cap (DOMAIN disk.index[f2]) # {}

\* C8, as stated: no example is ever yielded from a dataset whose merged index
\* has a duplicate scene key.
C8_DuplicateKeysNeverYield == DuplicateKeys => ~emitted

----------------------------------------------------------------------------
(* Properties of the processing of one scene.                              *)

PastSampling == spc \in {"sampled", "fov_ok", "gathered", "normalized", "emitted", "error",
                        "image_error"}
                \/ (spc = "skipped" /\ skipReason # "frames")

PastFovCheck == spc \in {"fov_ok", "gathered", "normalized", "emitted", "error", "image_error"}
                \/ (spc = "skipped" /\ skipReason \in {"fov", "shape", "baseline"})

\* C3, as stated: whatever the frame count, a scene ends by an example or by a
\* skip, and every index used to gather views is an index of the scene.
C3_FrameCountNeverFatal ==
    /\ spc \notin {"error", "load_error"}
    /\ spc \in {"gathered", "normalized", "emitted"} =>
          /\ IndicesValid(Len(frames), context_indices)
          /\ IndicesValid(Len(frames), target_indices)

\* The two context translations the Camera Frame Builder produced.
ContextPair == <<frames[context_indices[1] + 1].t.v, frames[context_indices[2] + 1].t.v>>
Baseline2 == Dot(Sub(ContextPair[1], ContextPair[2]), Sub(ContextPair[1], ContextPair[2]))

TwoContextViews ==
    /\ PastSampling
    /\ scfg.make_baseline_1
    /\ Len(context_indices) = 2
    /\ IndicesValid(Len(frames), context_indices)

\* The views of the scene were gathered: the baseline test is next or done.
Gathered == spc \in {"gathered", "normalized", "emitted"}
            \/ (spc = "skipped" /\ skipReason = "baseline")

\* C4: with normalization enabled, a scene whose two gathered context views
\* are closer than baseline_epsilon yields no example: nothing of it is
\* normalized or emitted, and it ends as a skip.
C4_BaselineRejection ==
    (/\ TwoContextViews
     /\ Gathered
     /\ scfg.baseline_epsilon > 0
     /\ Baseline2 < scfg.baseline_epsilon * scfg.baseline_epsilon)
    => /\ example = NoExample
       /\ spc \in {"gathered", "skipped"}

\* A scene of the torch path was skipped for its baseline.
C4_Witness ==
    /\ spc = "skipped"
    /\ skipReason = "baseline"
    /\ scfg.format = "torch"
    /\ example = NoExample

\* Two emitted translations are finite and exactly one unit apart.
UnitApart(x, y) ==
    /\ Finite(x)
    /\ Finite(y)
    /\ x.s2 = y.s2
    /\ Dot(Sub(x.v, y.v), Sub(x.v, y.v)) = x.s2

\* Every view of a group carries the frame's translation divided by sqrt(q),
\* mirrored in x when m is set.
GroupDividedBy(group, q, m) ==
    \A k \in 1..Len(group.index) :
        LET divided == DivBy(frames[group.index[k] + 1].t, q)
        IN  group.extrinsics[k] = IF m THEN Reflect(divided) ELSE divided

\* Whether the views of the emitted example may be mirrored.
Mirrors == IF scfg.stage = "train" /\ scfg.augment THEN BOOLEAN ELSE {FALSE}

\* C5, as stated: whenever normalization is enabled and two context views pass
\* the epsilon test, the emitted context translations are one unit apart.
C5_UnitBaselineWheneverAccepted ==
    (spc = "emitted" /\ TwoContextViews) =>
        UnitApart(example[1].context.extrinsics[1], example[1].context.extrinsics[2])

\* C5, amended: with normalization enabled and two context views, every emitted
\* translation is the frame's translation divided by the same scale
\* ||t_a - t_b||, and the context translations are one unit apart provided the
\* scale is positive (with baseline_epsilon <= 0 a scale of 0 passes the test
\* and the division is by zero); otherwise scale = 1 and every emitted
\* translation is the one the Camera Frame Builder produced.  In the train
\* stage with augmentation on, the views may all be mirrored in x together.
C5_BaselineNormalization ==
    spc = "emitted" =>
        \E m \in Mirrors :
            IF TwoContextViews
            THEN /\ GroupDividedBy(example[1].context, Baseline2, m)
                 /\ GroupDividedBy(example[1].target, Baseline2, m)
                 /\ Baseline2 > 0 =>
                       UnitApart(example[1].context.extrinsics[1],
                                 example[1].context.extrinsics[2])
            ELSE /\ scale = 1
                 /\ GroupDividedBy(example[1].context, 1, m)
                 /\ GroupDividedBy(example[1].target, 1, m)

\* A normalized example with a positive scale and a target that is no context view.
C5_Witness ==
    /\ spc = "emitted"
    /\ TwoContextViews
    /\ Baseline2 > 1
    /\ \E k \in 1..Len(target_indices) : target_indices[k] \notin Range(context_indices)

\* The near and far a view must carry: the configured value, or the built-in
\* default for -1, over the scene's scale when the bounds follow the scale.
ExpectedBound(configured, default) ==
    [v  |-> IF configured = UseDefault THEN default ELSE configured,
     s2 |-> IF scfg.baseline_scale_bounds /\ TwoContextViews THEN Baseline2 ELSE 1]

GroupBounds(group) ==
    /\ Len(group.near) = Len(group.index)
    /\ Len(group.far) = Len(group.index)
    /\ \A k \in 1..Len(group.index) :
          /\ group.near[k] = ExpectedBound(scfg.cfg_near, NearDefault)
          /\ group.far[k] = ExpectedBound(scfg.cfg_far, FarDefault)

\* C6: every view of an emitted example carries near = N0 / scale and
\* far = F0 / scale when baseline_scale_bounds is set, N0 and F0 otherwise.
C6_BoundsFollowScale ==
    spc = "emitted" => GroupBounds(example[1].context) /\ GroupBounds(example[1].target)

\* An example with default bounds divided by a scale other than 1.
C6_Witness ==
    /\ spc = "emitted"
    /\ scfg.baseline_scale_bounds
    /\ scfg.cfg_near = UseDefault
    /\ scale > 1
    /\ example[1].target.near[1] = [v |-> NearDefault, s2 |-> scale]

\* The frames the selection retained: those the index lists name.
Retained ==
    {i \in 1..Len(frames) : (i - 1) \in Range(context_indices) \cup Range(target_indices)}

\* C7, as stated: a scene is skipped for its field of view exactly when some
\* retained frame exceeds max_fov.
C7_FovOnRetainedFrames ==
    PastFovCheck =>
        (skipReason = "fov" <=> \E i \in Retained : frames[i].fov > scfg.max_fov)

\* C7, amended: a scene is skipped for its field of view exactly when some
\* frame of the scene, retained or not, exceeds max_fov.
C7_FovOnAllFrames ==
    PastFovCheck =>
        (skipReason = "fov" <=> \E i \in 1..Len(frames) : frames[i].fov > scfg.max_fov)

\* A scene skipped for the field of view of a frame that was not retained.
C7_Witness ==
    /\ spc = "skipped"
    /\ skipReason = "fov"
    /\ \A i \in Retained : frames[i].fov <= scfg.max_fov

----------------------------------------------------------------------------
(* Properties of the camera basis.                                         *)

Unit(x) == Finite(x) /\ Dot(x.v, x.v) = x.s2

Orthogonal(x, y) == Finite(x) /\ Finite(y) /\ Dot(x.v, y.v) = 0

\* C9, as stated: the worked example, a chunk of one frame whose direction at
\* the principal pixel is (0,0,-1): forward is (0,0,1), up and right are unit
\* vectors orthogonal to each other and to forward, and the translation column
\* before inversion is (0,0,-8), in tenths (0,0,-80).
C9_WorkedExample ==
    (bpc = "matrix" /\ direction = <<(<<0, 0, -1>>)>>) =>
        /\ basis.forward[1] = Exact(<<0, 0, 1>>)
        /\ Unit(basis.up[1])
        /\ Unit(basis.right[1])
        /\ Orthogonal(basis.up[1], basis.right[1])
        /\ Orthogonal(basis.up[1], basis.forward[1])
        /\ Orthogonal(basis.right[1], basis.forward[1])
        /\ c2w[1].col4 = Exact(<<0, 0, -80>>)

NonDegenerate(d) == d[1] # 0 \/ d[2] # 0

\* C10, as stated: for every frame whose direction is neither zero nor parallel
\* to the Z axis, the columns [right, up, forward] are pairwise orthogonal unit
\* vectors, forward points along -direction, and right x up is a positive
\* multiple of forward.
C10_OrthonormalRightHanded ==
    bpc = "matrix" =>
        \A i \in 1..Len(direction) :
            NonDegenerate(direction[i]) =>
                /\ Unit(c2w[i].col1) /\ Unit(c2w[i].col2) /\ Unit(c2w[i].col3)
                /\ Orthogonal(c2w[i].col1, c2w[i].col2)
                /\ Orthogonal(c2w[i].col1, c2w[i].col3)
                /\ Orthogonal(c2w[i].col2, c2w[i].col3)
                /\ c2w[i].col3.v = Neg(direction[i])
                /\ Cross(Cross(c2w[i].col1.v, c2w[i].col2.v), c2w[i].col3.v) = Zero3
                /\ Dot(Cross(c2w[i].col1.v, c2w[i].col2.v), c2w[i].col3.v) > 0

----------------------------------------------------------------------------
(* Properties of the shard list across passes.                             *)

\* C11, as stated: in any stage, with or without worker info, after any number
\* of passes the shard list of a dataset instance is a permutation of the list
\* it held before its first pass.
C11_ShardListKept ==
    status = "constructed" =>
        \A w \in WorkerIds(cfg) : IsPermutation(wchunks[w], chunks0)

====
